---- MODULE Spec2Model ----
(***************************************************************************)
(* Workflow discovery: the signal flattener, the workflow catalog and the  *)
(* confidence scorer of workflow_matcher.py, driven by analysis results    *)
(* of the shape the dependency and structure analyzers produce.            *)
(*                                                                         *)
(* Confidence values are held in tenths (0.9 is 9, the cap 1.0 is 10, the  *)
(* floor 0.3 is 3).  The floating-point sums of the source are exact on    *)
(* every value that is not capped: a single match gives 0.5, 0.7 or 0.9,   *)
(* and any two matches give at least 1.0 (2 * 0.5 == 1.0 exactly).         *)
(***************************************************************************)
EXTENDS Integers, Sequences, FiniteSets, TLC

VARIABLES
    workflow_templates,   \* WorkflowMatcher.workflow_templates (insertion-ordered dict)
    confidence_weights,   \* WorkflowMatcher.confidence_weights
    analysis_results,     \* the analysis results the analyzers have built so far
    last_analysis,        \* the argument of the last match_workflows call
    detected_items,       \* the flattened list of that call
    scored,               \* the suggestion computed for each template by that call
    suggestions,          \* the list that call returned
    raised,               \* the exception that call raised, "None" when it returned
    last_query,           \* the last filter / categories / details call and its result
    threads,              \* concurrent callers of one matcher: call, position, locals
    manifest_run,         \* the last manifest analysis: file, content, returned list
    structure_run         \* the last structure analysis: folders, files, patterns, recommendations

vars == <<workflow_templates, confidence_weights, analysis_results,
          last_analysis, detected_items, scored, suggestions, raised,
          last_query, threads, manifest_run, structure_run>>

\* What one match_workflows call leaves behind.
call_vars == <<last_analysis, detected_items, scored, suggestions, raised>>

\* What the other callers leave behind.
other_vars == <<last_query, threads, manifest_run, structure_run>>

\* ---------------------------------------------------------------- bounds

\* Dependencies plus structure labels an analysis may hold.
MaxItems == 2

\* ------------------------------------------------------- python helpers

ToSet(seq) == {seq[i] : i \in 1..Len(seq)}

\* dict.get(key, default)
Get(d, key, default) == IF key \in DOMAIN d THEN d[key] ELSE default

\* sep.join(parts)
RECURSIVE Join(_, _)
Join(sep, parts) ==
    IF parts = <<>> THEN ""
    ELSE IF Len(parts) = 1 THEN parts[1]
    ELSE parts[1] \o sep \o Join(sep, Tail(parts))

\* str.lower() on the strings that occur: the ones holding an upper-case
\* letter are tabulated, every other string is its own lower-case form.
UpperCased ==
    [React |-> "react", REACT |-> "react", Vue |-> "vue", Jest |-> "jest",
     Express |-> "express", Frontend |-> "frontend",
     Reactive |-> "reactive", Components |-> "components"]
    @@ ("Components/" :> "components/") @@ ("Docs/" :> "docs/")
    @@ ("Full-Stack" :> "full-stack")

LowerIdentity(s) == s

Lower(s) == IF s \in DOMAIN UpperCased THEN UpperCased[s] ELSE s

\* ------------------------------------------------------------- catalog

Template(category, estimated_time, prerequisites, strong, medium, weak, description) ==
    [category |-> category, estimated_time |-> estimated_time,
     prerequisites |-> prerequisites,
     triggers |-> [strong |-> strong, medium |-> medium, weak |-> weak],
     description |-> description]

\* The dict returned by _load_workflow_templates, as the sequence of its
\* (key, value) items in insertion order.
load_workflow_templates ==
    << [name |-> "component-library", template |->
         Template("frontend", "15-30 minutes",
                  <<"React/Vue/Angular", "components folder">>,
                  <<"react", "vue", "angular", "components/">>,
                  <<"jsx", "tsx", "vue", "svelte">>,
                  <<"src/", "lib/">>,
                  "Create comprehensive component library with documentation and testing")],
       [name |-> "storybook-setup", template |->
         Template("frontend", "10-20 minutes",
                  <<"Component library", "React/Vue/Angular">>,
                  <<"components/", "storybook">>,
                  <<"react", "vue", "angular">>,
                  <<"ui components", "design system">>,
                  "Set up Storybook for component development and documentation")],
       [name |-> "frontend-testing", template |->
         Template("testing", "20-40 minutes",
                  <<"Frontend framework", "Test files">>,
                  <<"jest", "vitest", "cypress", "playwright">>,
                  <<"tests/", "__tests__", "spec/">>,
                  <<"test", "spec">>,
                  "Set up comprehensive frontend testing suite")],
       [name |-> "api-documentation", template |->
         Template("backend", "20-45 minutes",
                  <<"API framework", "Route definitions">>,
                  <<"express", "fastapi", "django", "api/", "routes/">>,
                  <<"rest", "graphql", "api">>,
                  <<"server", "backend">>,
                  "Generate comprehensive API documentation with OpenAPI/Swagger")],
       [name |-> "database-schema", template |->
         Template("database", "30-60 minutes",
                  <<"Database ORM", "Model definitions">>,
                  <<"prisma", "typeorm", "sqlalchemy", "models/", "schemas/">>,
                  <<"database", "orm", "models">>,
                  <<"data", "storage">>,
                  "Analyze and document database schema with relationships")],
       [name |-> "database-migration", template |->
         Template("database", "15-30 minutes",
                  <<"Database setup", "Migration files">>,
                  <<"migrations/", "seeds/", "prisma">>,
                  <<"database", "sql", "schema">>,
                  <<"data", "storage">>,
                  "Set up database migration and seeding workflow")],
       [name |-> "full-stack-documentation", template |->
         Template("documentation", "45-90 minutes",
                  <<"Frontend + Backend", "API endpoints">>,
                  <<"react", "express", "api/", "components/">>,
                  <<"frontend", "backend", "full-stack">>,
                  <<"web", "application">>,
                  "Create comprehensive documentation for full-stack application")],
       [name |-> "test-coverage", template |->
         Template("testing", "25-45 minutes",
                  <<"Test framework", "Source code">>,
                  <<"jest", "vitest", "pytest", "coverage">>,
                  <<"tests/", "__tests__", "testing">>,
                  <<"test", "spec">>,
                  "Set up test coverage reporting and improve test coverage")],
       [name |-> "api-testing", template |->
         Template("testing", "20-35 minutes",
                  <<"API endpoints", "Testing framework">>,
                  <<"express", "fastapi", "cypress", "playwright">>,
                  <<"api/", "routes/", "testing">>,
                  <<"api", "test">>,
                  "Set up comprehensive API testing suite")],
       [name |-> "documentation-generation", template |->
         Template("documentation", "30-60 minutes",
                  <<"Source code", "README files">>,
                  <<"readme.md", "docs/", "documentation">>,
                  <<".md files", "comments", "docstrings">>,
                  <<"docs", "documentation">>,
                  "Generate comprehensive documentation from source code and existing docs")],
       [name |-> "knowledge-base", template |->
         Template("documentation", "45-75 minutes",
                  <<"Documentation files", "Project structure">>,
                  <<"docs/", "documentation", "readme.md">>,
                  <<".md files", "wiki", "knowledge">>,
                  <<"docs", "information">>,
                  "Create searchable knowledge base from project documentation")],
       [name |-> "deployment-pipeline", template |->
         Template("deployment", "30-60 minutes",
                  <<"Project structure", "CI/CD setup">>,
                  <<".github/", "dockerfile", "ci-cd">>,
                  <<"deploy", "pipeline", "automation">>,
                  <<"production", "release">>,
                  "Set up automated deployment pipeline with CI/CD")],
       [name |-> "docker-setup", template |->
         Template("deployment", "15-30 minutes",
                  <<"Application code", "Configuration">>,
                  <<"dockerfile", "docker-compose">>,
                  <<"container", "deployment">>,
                  <<"docker", "containerization">>,
                  "Set up Docker containerization for application")],
       [name |-> "code-quality", template |->
         Template("development", "20-40 minutes",
                  <<"Source code", "Linting tools">>,
                  <<"eslint", "prettier", "linting">>,
                  <<"code quality", "formatting">>,
                  <<"code", "quality">>,
                  "Set up code quality tools and formatting standards")],
       [name |-> "performance-optimization", template |->
         Template("development", "30-60 minutes",
                  <<"Application code", "Performance issues">>,
                  <<"performance", "optimization", "speed">>,
                  <<"slow", "lag", "optimization">>,
                  <<"performance", "improvement">>,
                  "Analyze and optimize application performance")] >>

\* The weights set by __init__, in tenths.
ConfidenceWeights ==
    [strong_signal |-> 9, medium_signal |-> 7, weak_signal |-> 5, suggestion |-> 3]

\* The cap of min(confidence, 1.0) and the floor of match_workflows, in tenths.
ConfidenceCap == 10
MinConfidence == 3

DefaultReasoning == "General recommendation based on project structure"

\* ------------------------------------------------------ signal flattener

\* Python's None held by an attribute the code expects a string in.
NoneValue == "<None>"

\* dep.name on a dependency that has no such attribute (a dict, say) and
\* dep.category.lower() on a category that is None raise AttributeError out
\* of the loop; nothing else in the call raises.
flatten_raises(dependencies) ==
    IF \E n \in 1..Len(dependencies) :
          \/ "name" \notin DOMAIN dependencies[n]
          \/ /\ "category" \in DOMAIN dependencies[n]
             /\ dependencies[n].category = NoneValue
    THEN "AttributeError" ELSE "None"

\* The loop over dependencies: each contributes its lower-cased name and,
\* when it has a category attribute, its lower-cased category.
RECURSIVE dependency_items(_)
dependency_items(dependencies) ==
    IF dependencies = <<>> THEN <<>>
    ELSE LET dep == Head(dependencies) IN
         <<Lower(dep.name)>>
         \o (IF "category" \in DOMAIN dep THEN <<Lower(dep.category)>> ELSE <<>>)
         \o dependency_items(Tail(dependencies))

\* Mutant: the closing lower-casing of the list left out.
extract_detected_items_as_given(dependencies, patterns) ==
    LET architecture == Get(patterns, "architecture", "")
    IN dependency_items(dependencies)
       \o Get(patterns, "frameworks", <<>>)
       \o Get(patterns, "project_types", <<>>)
       \o Get(patterns, "key_patterns", <<>>)
       \o (IF architecture # "" /\ architecture # "unknown"
           THEN <<architecture>> ELSE <<>>)

extract_detected_items(dependencies, patterns) ==
    LET architecture == Get(patterns, "architecture", "")
        items == dependency_items(dependencies)
                 \o Get(patterns, "frameworks", <<>>)
                 \o Get(patterns, "project_types", <<>>)
                 \o Get(patterns, "key_patterns", <<>>)
                 \o (IF architecture # "" /\ architecture # "unknown"
                     THEN <<architecture>> ELSE <<>>)
    IN [i \in 1..Len(items) |-> Lower(items[i])]

\* ---------------------------------------------------- confidence scorer

\* Mutant: the matching items collected in reverse declaration order.
RECURSIVE matching_items_reversed(_, _)
matching_items_reversed(level_triggers, detected) ==
    IF level_triggers = <<>> THEN <<>>
    ELSE matching_items_reversed(Tail(level_triggers), detected)
         \o (IF Lower(Head(level_triggers)) \in ToSet(detected)
             THEN <<Head(level_triggers)>> ELSE <<>>)

\* [item for item in level_triggers if item.lower() in detected]
RECURSIVE matching_items(_, _)
matching_items(level_triggers, detected) ==
    IF level_triggers = <<>> THEN <<>>
    ELSE (IF Lower(Head(level_triggers)) \in ToSet(detected)
          THEN <<Head(level_triggers)>> ELSE <<>>)
         \o matching_items(Tail(level_triggers), detected)

\* Mutant: the matches counted over the list, repeats included.
count_matches_with_repeats(level_triggers, detected) ==
    Cardinality({n \in 1..Len(detected) : detected[n] \in ToSet(level_triggers)})

\* Mutant: a tier counted as matched or not, however many triggers match.
count_matches_at_most_one(level_triggers, detected) ==
    IF ToSet(level_triggers) \cap ToSet(detected) = {} THEN 0 ELSE 1

\* len(set(level_triggers) & set(detected_items))
count_matches(level_triggers, detected) ==
    Cardinality(ToSet(level_triggers) \cap ToSet(detected))

\* Mutant: a clause for every tier, matched or not.
generate_reasoning_every_tier(strong_matches, medium_matches, weak_matches, triggers, detected) ==
    Join(" | ",
         << "Strong indicators: "
              \o Join(", ", matching_items(Get(triggers, "strong", <<>>), detected)),
            "Supporting indicators: "
              \o Join(", ", matching_items(Get(triggers, "medium", <<>>), detected)),
            "Additional indicators: "
              \o Join(", ", matching_items(Get(triggers, "weak", <<>>), detected)) >>)

generate_reasoning(strong_matches, medium_matches, weak_matches, triggers, detected) ==
    LET strong_part ==
            IF strong_matches > 0
            THEN <<"Strong indicators: "
                   \o Join(", ", matching_items(Get(triggers, "strong", <<>>), detected))>>
            ELSE <<>>
        medium_part ==
            IF medium_matches > 0
            THEN <<"Supporting indicators: "
                   \o Join(", ", matching_items(Get(triggers, "medium", <<>>), detected))>>
            ELSE <<>>
        weak_part ==
            IF weak_matches > 0
            THEN <<"Additional indicators: "
                   \o Join(", ", matching_items(Get(triggers, "weak", <<>>), detected))>>
            ELSE <<>>
        reasoning_parts == strong_part \o medium_part \o weak_part
    IN IF reasoning_parts = <<>> THEN DefaultReasoning
       ELSE Join(" | ", reasoning_parts)

\* Mutant: the cap left out.
cap_confidence_missing(confidence) == confidence

\* min(confidence, 1.0)
cap_confidence(confidence) ==
    IF confidence < ConfidenceCap THEN confidence ELSE ConfidenceCap

\* Mutant: the "suggestion" weight added as a base score.
weighted_confidence_base_score(weights, strong_matches, medium_matches, weak_matches) ==
    weights["suggestion"]
    + strong_matches * weights["strong_signal"]
    + medium_matches * weights["medium_signal"]
    + weak_matches * weights["weak_signal"]

\* Mutant: a weak match subtracts its weight.
weighted_confidence_weak_penalty(weights, strong_matches, medium_matches, weak_matches) ==
    strong_matches * weights["strong_signal"]
    + medium_matches * weights["medium_signal"]
    - weak_matches * weights["weak_signal"]

\* Mutant: the medium tier weighted like the weak one.
weighted_confidence_medium_as_weak(weights, strong_matches, medium_matches, weak_matches) ==
    strong_matches * weights["strong_signal"]
    + medium_matches * weights["weak_signal"]
    + weak_matches * weights["weak_signal"]

\* Mutant: the strong tier weighted like the medium one.
weighted_confidence_strong_as_medium(weights, strong_matches, medium_matches, weak_matches) ==
    strong_matches * weights["medium_signal"]
    + medium_matches * weights["medium_signal"]
    + weak_matches * weights["weak_signal"]

weighted_confidence(weights, strong_matches, medium_matches, weak_matches) ==
    strong_matches * weights["strong_signal"]
    + medium_matches * weights["medium_signal"]
    + weak_matches * weights["weak_signal"]


\* Mutant: a trigger matched in several tiers listed under its first tier only.
calculate_workflow_confidence_listing_once(weights, workflow_name, template, detected) ==
    LET triggers == Get(template, "triggers", <<>>)
        strong_matches == count_matches(Get(triggers, "strong", <<>>), detected)
        medium_matches == count_matches(Get(triggers, "medium", <<>>), detected)
        weak_matches == count_matches(Get(triggers, "weak", <<>>), detected)
        strong_list == matching_items(Get(triggers, "strong", <<>>), detected)
        medium_list == SelectSeq(matching_items(Get(triggers, "medium", <<>>), detected),
                                 LAMBDA t : t \notin ToSet(strong_list))
        weak_list == SelectSeq(matching_items(Get(triggers, "weak", <<>>), detected),
                               LAMBDA t : t \notin ToSet(strong_list \o medium_list))
    IN [name |-> workflow_name,
        confidence |-> cap_confidence(
            weighted_confidence(weights, strong_matches, medium_matches, weak_matches)),
        reasoning |-> generate_reasoning(strong_matches, medium_matches, weak_matches,
                                         triggers, detected),
        category |-> Get(template, "category", "general"),
        estimated_time |-> Get(template, "estimated_time", "30-60 minutes"),
        prerequisites |-> Get(template, "prerequisites", <<>>),
        triggers |-> strong_list \o medium_list \o weak_list]

calculate_workflow_confidence(weights, workflow_name, template, detected) ==
    LET triggers == Get(template, "triggers", <<>>)
        strong_matches == count_matches(Get(triggers, "strong", <<>>), detected)
        medium_matches == count_matches(Get(triggers, "medium", <<>>), detected)
        weak_matches == count_matches(Get(triggers, "weak", <<>>), detected)
        confidence == cap_confidence(
            weighted_confidence(weights, strong_matches, medium_matches, weak_matches))
        reasoning == generate_reasoning(strong_matches, medium_matches, weak_matches,
                                        triggers, detected)
        matching_triggers ==
            matching_items(Get(triggers, "strong", <<>>), detected)
            \o matching_items(Get(triggers, "medium", <<>>), detected)
            \o matching_items(Get(triggers, "weak", <<>>), detected)
    IN [name |-> workflow_name,
        confidence |-> confidence,
        reasoning |-> reasoning,
        category |-> Get(template, "category", "general"),
        estimated_time |-> Get(template, "estimated_time", "30-60 minutes"),
        prerequisites |-> Get(template, "prerequisites", <<>>),
        triggers |-> matching_triggers]

\* ---------------------------------------------------------------- ranking

\* Mutant: the floor compared against 0.
RECURSIVE keep_confident_zero_floor(_)
keep_confident_zero_floor(all) ==
    IF all = <<>> THEN <<>>
    ELSE (IF Head(all).confidence >= 0 THEN <<Head(all)>> ELSE <<>>)
         \o keep_confident_zero_floor(Tail(all))

\* Mutant: every computed suggestion appended, the floor left out.
keep_confident_no_floor(all) == all

\* if suggestion.confidence >= 0.3: suggestions.append(suggestion)
RECURSIVE keep_confident(_)
keep_confident(all) ==
    IF all = <<>> THEN <<>>
    ELSE (IF Head(all).confidence >= MinConfidence THEN <<Head(all)>> ELSE <<>>)
         \o keep_confident(Tail(all))

\* Mutant: x goes before the elements of equal confidence (ties reversed).
RECURSIVE insert_sorted_before_ties(_, _)
insert_sorted_before_ties(sorted, x) ==
    IF sorted = <<>> THEN <<x>>
    ELSE IF Head(sorted).confidence > x.confidence
         THEN <<Head(sorted)>> \o insert_sorted_before_ties(Tail(sorted), x)
         ELSE <<x>> \o sorted

\* One insertion of list.sort(key=confidence, reverse=True): x goes behind
\* every element whose confidence is not lower than its own.
RECURSIVE insert_sorted(_, _)
insert_sorted(sorted, x) ==
    IF sorted = <<>> THEN <<x>>
    ELSE IF Head(sorted).confidence >= x.confidence
         THEN <<Head(sorted)>> \o insert_sorted(Tail(sorted), x)
         ELSE <<x>> \o sorted

\* suggestions.sort(key=lambda x: x.confidence, reverse=True): stable.
RECURSIVE sort_by_confidence(_)
sort_by_confidence(list) ==
    IF list = <<>> THEN <<>>
    ELSE insert_sorted(sort_by_confidence(SubSeq(list, 1, Len(list) - 1)),
                       list[Len(list)])

\* ------------------------------------------------------------ analysis

\* Dependency records as _create_dependency_info builds them (name as
\* written in the manifest, category from framework_mappings or "unknown"),
\* and one record of another type that has no category attribute.
DependencyPool ==
    { [name |-> "React", category |-> "frontend"],
      [name |-> "express", category |-> "backend"],
      [name |-> "jest", category |-> "testing"],
      [name |-> "reactive", category |-> "unknown"],
      [name |-> "components", category |-> "unknown"],
      [name |-> "Vue"] }

\* Labels handed to match_workflows under patterns: the ones _detect_patterns
\* emits, and folder-style or mixed-case ones another caller may pass.
FrameworkPool == {"component-based", "Components/"}
ProjectTypePool == {"ci-cd-enabled", "docs"}
KeyPatternPool == {"nodejs-project", "src/"}
ArchitecturePool == {"full-stack", "frontend", ""}

\* len() of the four lists of an analysis.
ItemCount(results) ==
    Len(results.dependencies)
    + Len(results.structure.patterns.frameworks)
    + Len(results.structure.patterns.project_types)
    + Len(results.structure.patterns.key_patterns)

EmptyAnalysis ==
    [dependencies |-> <<>>,
     structure |-> [patterns |-> [architecture |-> "unknown", frameworks |-> <<>>,
                                  project_types |-> <<>>, key_patterns |-> <<>>]]]

\* ---------------------------------------------------------------- state

NoQuery == [op |-> "none"]

\* The callers that share one matcher.
Threads == {"t1", "t2"}

IdleThread == [pc |-> "idle"]

NoManifestRun == [file |-> "none"]

NoStructureRun == [op |-> "none"]

Init ==
    /\ workflow_templates = load_workflow_templates
    /\ confidence_weights = ConfidenceWeights
    /\ analysis_results = EmptyAnalysis
    /\ last_analysis = EmptyAnalysis
    /\ detected_items = <<>>
    /\ scored = <<>>
    /\ suggestions = <<>>
    /\ raised = "None"
    /\ last_query = NoQuery
    /\ threads = [t \in Threads |-> IdleThread]
    /\ manifest_run = NoManifestRun
    /\ structure_run = NoStructureRun

\* all_dependencies.extend(deps): the dependency analyzer reports a dependency.
AddDependency(dep) ==
    /\ ItemCount(analysis_results) < MaxItems
    /\ analysis_results' =
         [analysis_results EXCEPT !.dependencies = Append(@, dep)]
    /\ UNCHANGED <<workflow_templates, confidence_weights, call_vars, other_vars>>

\* patterns["frameworks"].append(label)
AddFramework(label) ==
    /\ ItemCount(analysis_results) < MaxItems
    /\ label \notin ToSet(analysis_results.structure.patterns.frameworks)
    /\ analysis_results' =
         [analysis_results EXCEPT !.structure.patterns.frameworks = Append(@, label)]
    /\ UNCHANGED <<workflow_templates, confidence_weights, call_vars, other_vars>>

\* patterns["project_types"].append(label)
AddProjectType(label) ==
    /\ ItemCount(analysis_results) < MaxItems
    /\ label \notin ToSet(analysis_results.structure.patterns.project_types)
    /\ analysis_results' =
         [analysis_results EXCEPT !.structure.patterns.project_types = Append(@, label)]
    /\ UNCHANGED <<workflow_templates, confidence_weights, call_vars, other_vars>>

\* patterns["key_patterns"].append(label)
AddKeyPattern(label) ==
    /\ ItemCount(analysis_results) < MaxItems
    /\ label \notin ToSet(analysis_results.structure.patterns.key_patterns)
    /\ analysis_results' =
         [analysis_results EXCEPT !.structure.patterns.key_patterns = Append(@, label)]
    /\ UNCHANGED <<workflow_templates, confidence_weights, call_vars, other_vars>>

\* patterns["architecture"] = ...: assigned at most once, over the "unknown"
\* it starts with.
SetArchitecture(architecture) ==
    /\ analysis_results.structure.patterns.architecture = "unknown"
    /\ analysis_results' =
         [analysis_results EXCEPT !.structure.patterns.architecture = architecture]
    /\ UNCHANGED <<workflow_templates, confidence_weights, call_vars, other_vars>>

\* Mutant: the detected items of earlier calls kept on the matcher and added
\* to those of this call.
MatchWorkflowsAccumulating ==
    LET dependencies == Get(analysis_results, "dependencies", <<>>)
        structure == Get(analysis_results, "structure", <<>>)
        patterns == Get(structure, "patterns", <<>>)
        detected == detected_items \o extract_detected_items(dependencies, patterns)
        all == [i \in 1..Len(workflow_templates) |->
                  calculate_workflow_confidence(confidence_weights,
                      workflow_templates[i].name, workflow_templates[i].template,
                      detected)]
    IN /\ last_analysis' = analysis_results
       /\ raised' = flatten_raises(dependencies)
       /\ detected_items' = detected
       /\ scored' = all
       /\ suggestions' = sort_by_confidence(keep_confident(all))
       /\ UNCHANGED <<workflow_templates, confidence_weights, analysis_results,
                      other_vars>>

\* match_workflows(analysis_results)
MatchWorkflows ==
    LET dependencies == Get(analysis_results, "dependencies", <<>>)
        structure == Get(analysis_results, "structure", <<>>)
        patterns == Get(structure, "patterns", <<>>)
        detected == extract_detected_items(dependencies, patterns)
        all == [i \in 1..Len(workflow_templates) |->
                  calculate_workflow_confidence(confidence_weights,
                      workflow_templates[i].name, workflow_templates[i].template,
                      detected)]
    IN /\ last_analysis' = analysis_results
       /\ raised' = flatten_raises(dependencies)
       /\ IF flatten_raises(dependencies) = "None"
          THEN /\ detected_items' = detected
               /\ scored' = all
               /\ suggestions' = sort_by_confidence(keep_confident(all))
          ELSE /\ detected_items' = <<>>
               /\ scored' = <<>>
               /\ suggestions' = <<>>
       /\ UNCHANGED <<workflow_templates, confidence_weights, analysis_results,
                      other_vars>>

Next ==
    \/ \E dep \in DependencyPool : AddDependency(dep)
    \/ \E label \in FrameworkPool : AddFramework(label)
    \/ \E label \in ProjectTypePool : AddProjectType(label)
    \/ \E label \in KeyPatternPool : AddKeyPattern(label)
    \/ \E architecture \in ArchitecturePool : SetArchitecture(architecture)
    \/ MatchWorkflows

Spec == Init /\ [][Next]_vars

\* ---------------------------------------------------------------- queries

\* An Optional value: <<>> is None, <<v>> is the value v.
None == <<>>

\* Mutant: the threshold compared strictly.
filter_suggestions_exclusive(list, category, min_confidence) ==
    LET by_category ==
            IF category # None /\ category[1] # ""
            THEN SelectSeq(list, LAMBDA x : x.category = category[1])
            ELSE list
    IN IF min_confidence > 0
       THEN SelectSeq(by_category, LAMBDA x : x.confidence > min_confidence)
       ELSE by_category

\* filter_suggestions(suggestions, category, min_confidence): `if category:`
\* is false of None and of the empty string.
filter_suggestions(list, category, min_confidence) ==
    LET by_category ==
            IF category # None /\ category[1] # ""
            THEN SelectSeq(list, LAMBDA x : x.category = category[1])
            ELSE list
    IN IF min_confidence > 0
       THEN SelectSeq(by_category, LAMBDA x : x.confidence >= min_confidence)
       ELSE by_category

\* Mutant: the category's list started afresh for every template.
RECURSIVE get_workflow_categories_reset(_)
get_workflow_categories_reset(templates) ==
    IF templates = <<>> THEN <<>>
    ELSE LET categories == get_workflow_categories_reset(SubSeq(templates, 1, Len(templates) - 1))
             workflow_name == templates[Len(templates)].name
             category == Get(templates[Len(templates)].template, "category", "general")
         IN IF \E k \in 1..Len(categories) : categories[k].category = category
            THEN LET k == CHOOSE k \in 1..Len(categories) : categories[k].category = category
                 IN [categories EXCEPT ![k].workflows = <<workflow_name>>]
            ELSE Append(categories, [category |-> category, workflows |-> <<workflow_name>>])

\* get_workflow_categories(): the dict it builds, as the sequence of its
\* (category, workflow names) items in insertion order.
RECURSIVE get_workflow_categories(_)
get_workflow_categories(templates) ==
    IF templates = <<>> THEN <<>>
    ELSE LET categories == get_workflow_categories(SubSeq(templates, 1, Len(templates) - 1))
             workflow_name == templates[Len(templates)].name
             category == Get(templates[Len(templates)].template, "category", "general")
         IN IF \E k \in 1..Len(categories) : categories[k].category = category
            THEN LET k == CHOOSE k \in 1..Len(categories) : categories[k].category = category
                 IN [categories EXCEPT ![k].workflows = Append(@, workflow_name)]
            ELSE Append(categories, [category |-> category, workflows |-> <<workflow_name>>])

\* Mutant: an absent name answered with the first template of the catalog.
get_workflow_details_fallback(templates, workflow_name) ==
    IF \E i \in 1..Len(templates) : templates[i].name = workflow_name
    THEN <<templates[CHOOSE i \in 1..Len(templates) :
                        templates[i].name = workflow_name].template>>
    ELSE <<templates[1].template>>

\* get_workflow_details(workflow_name): self.workflow_templates.get(name).
get_workflow_details(templates, workflow_name) ==
    IF \E i \in 1..Len(templates) : templates[i].name = workflow_name
    THEN <<templates[CHOOSE i \in 1..Len(templates) :
                        templates[i].name = workflow_name].template>>
    ELSE None

\* Arguments the queries are called with.
CategoryPool == {None, <<"">>, <<"testing">>, <<"backend">>, <<"security">>}
MinConfidencePool == {0, 7, 9, 10}
WorkflowNamePool ==
    {"component-library", "api-testing", "performance-optimization",
     "component-testing", "openapi-spec", "Component-Library", ""}

\* filter_suggestions on the list match_workflows returned.
FilterSuggestions(category, min_confidence) ==
    /\ last_query' = [op |-> "filter_suggestions", input |-> suggestions,
                      category |-> category, min_confidence |-> min_confidence,
                      result |-> filter_suggestions(suggestions, category, min_confidence)]
    /\ UNCHANGED <<workflow_templates, confidence_weights, analysis_results,
                   call_vars, threads, manifest_run, structure_run>>

GetWorkflowCategories ==
    /\ last_query' = [op |-> "get_workflow_categories",
                      result |-> get_workflow_categories(workflow_templates)]
    /\ UNCHANGED <<workflow_templates, confidence_weights, analysis_results,
                   call_vars, threads, manifest_run, structure_run>>

GetWorkflowDetails(workflow_name) ==
    /\ last_query' = [op |-> "get_workflow_details", workflow_name |-> workflow_name,
                      result |-> get_workflow_details(workflow_templates, workflow_name)]
    /\ UNCHANGED <<workflow_templates, confidence_weights, analysis_results,
                   call_vars, threads, manifest_run, structure_run>>

\* One analysis of a project's dependencies, matched once, then queried.
NextQueries ==
    \/ scored = <<>> /\ \E dep \in DependencyPool : AddDependency(dep)
    \/ scored = <<>> /\ MatchWorkflows
    \/ scored # <<>> /\ \E category \in CategoryPool, min_confidence \in MinConfidencePool :
                           FilterSuggestions(category, min_confidence)
    \/ GetWorkflowCategories
    \/ \E workflow_name \in WorkflowNamePool : GetWorkflowDetails(workflow_name)

SpecQueries == Init /\ [][NextQueries]_vars

\* ------------------------------------------------------------ repeated runs

\* Dependencies of the projects analysed one after the other.
RunsDependencyPool ==
    { [name |-> "React", category |-> "frontend"],
      [name |-> "express", category |-> "backend"] }

\* The caller keeps what a call returned, to compare a later call with it.
KeepRun ==
    /\ scored # <<>>
    /\ last_query' = [op |-> "match_workflows", analysis |-> last_analysis,
                      scored |-> scored, suggestions |-> suggestions]
    /\ UNCHANGED <<workflow_templates, confidence_weights, analysis_results,
                   call_vars, threads, manifest_run, structure_run>>

\* The caller analyses another project: the next call gets a fresh
\* analysis_results, the matcher object stays.
NewAnalysis ==
    /\ scored # <<>>
    /\ analysis_results # EmptyAnalysis
    /\ analysis_results' = EmptyAnalysis
    /\ UNCHANGED <<workflow_templates, confidence_weights, call_vars, other_vars>>

NextRuns ==
    \/ \E dep \in RunsDependencyPool : AddDependency(dep)
    \/ MatchWorkflows
    \/ KeepRun
    \/ NewAnalysis

SpecRuns == Init /\ [][NextRuns]_vars

\* --------------------------------------------------------- concurrent calls

\* An analysis holding the given dependencies and no structure labels.
AnalysisOf(dependencies) == [EmptyAnalysis EXCEPT !.dependencies = dependencies]

\* Arguments of the calls the threads make.
ConcurrentAnalysisPool ==
    { AnalysisOf(<<[name |-> "express", category |-> "backend"]>>),
      AnalysisOf(<<[name |-> "React", category |-> "frontend"],
                   [name |-> "jest", category |-> "testing"]>>) }
ConcurrentCategoryPool == {None, <<"testing">>}
ConcurrentMinConfidencePool == {0, 9}

\* match_workflows run to its end, as one call.
match_workflows(templates, weights, analysis) ==
    LET dependencies == Get(analysis, "dependencies", <<>>)
        structure == Get(analysis, "structure", <<>>)
        patterns == Get(structure, "patterns", <<>>)
        detected == extract_detected_items(dependencies, patterns)
    IN sort_by_confidence(keep_confident(
           [i \in 1..Len(templates) |->
               calculate_workflow_confidence(weights, templates[i].name,
                                             templates[i].template, detected)]))

\* Lists a caller passes to filter_suggestions: what match_workflows returned.
ConcurrentSuggestionsPool ==
    { match_workflows(load_workflow_templates, ConfidenceWeights, analysis) :
          analysis \in ConcurrentAnalysisPool }

\* Whether a thread other than t is inside a call.
OtherBusy(t) == \E u \in Threads \ {t} : threads[u].pc \notin {"idle", "done"}

\* Thread t moves to the frame next; `overlapped` remembers whether some step
\* of the call ran while another thread was inside a call.
Move(t, next) ==
    /\ threads' = [threads EXCEPT ![t] =
                      [next EXCEPT !.overlapped = next.overlapped \/ OtherBusy(t)]]
    /\ UNCHANGED <<workflow_templates, confidence_weights, analysis_results,
                   call_vars, last_query, manifest_run, structure_run>>

\* Thread t calls match_workflows(analysis).
CallMatchWorkflows(t, analysis) ==
    /\ threads[t].pc = "idle"
    /\ Move(t, [pc |-> "extract", op |-> "match_workflows", overlapped |-> FALSE,
                analysis_results |-> analysis])

\* Lines 243-249: the locals dependencies, structure, patterns, detected_items.
ExtractDetectedItems(t) ==
    /\ threads[t].pc = "extract"
    /\ LET f == threads[t]
           dependencies == Get(f.analysis_results, "dependencies", <<>>)
           structure == Get(f.analysis_results, "structure", <<>>)
           patterns == Get(structure, "patterns", <<>>)
       IN Move(t, [pc |-> "score", op |-> f.op, overlapped |-> f.overlapped,
                   analysis_results |-> f.analysis_results,
                   detected_items |-> extract_detected_items(dependencies, patterns),
                   suggestions |-> <<>>, i |-> 1])

\* Mutant: the list under construction kept on the matcher, so that a
\* suggestion lands in the list of every call in its loop.
ScoreTemplateSharedList(t) ==
    /\ threads[t].pc = "score"
    /\ threads[t].i <= Len(workflow_templates)
    /\ LET f == threads[t]
           suggestion == calculate_workflow_confidence(confidence_weights,
                             workflow_templates[f.i].name,
                             workflow_templates[f.i].template, f.detected_items)
       IN /\ threads' = [u \in Threads |->
                IF threads[u].pc = "score"
                THEN [threads[u] EXCEPT
                        !.suggestions = @ \o keep_confident(<<suggestion>>),
                        !.i = IF u = t THEN @ + 1 ELSE @,
                        !.overlapped = IF u = t THEN @ \/ OtherBusy(t) ELSE @]
                ELSE threads[u]]
          /\ UNCHANGED <<workflow_templates, confidence_weights, analysis_results,
                         call_vars, last_query, manifest_run, structure_run>>

\* Lines 252-255: one iteration of the loop over self.workflow_templates.
ScoreTemplate(t) ==
    /\ threads[t].pc = "score"
    /\ threads[t].i <= Len(workflow_templates)
    /\ LET f == threads[t]
           suggestion == calculate_workflow_confidence(confidence_weights,
                             workflow_templates[f.i].name,
                             workflow_templates[f.i].template, f.detected_items)
       IN Move(t, [f EXCEPT !.suggestions = @ \o keep_confident(<<suggestion>>),
                            !.i = @ + 1])

\* Lines 258-260: the local list sorted in place and returned.
SortSuggestions(t) ==
    /\ threads[t].pc = "score"
    /\ threads[t].i > Len(workflow_templates)
    /\ LET f == threads[t]
       IN Move(t, [pc |-> "done", op |-> f.op, overlapped |-> f.overlapped,
                   analysis_results |-> f.analysis_results,
                   result |-> sort_by_confidence(f.suggestions)])

\* Thread t calls filter_suggestions(list, category, min_confidence).
CallFilterSuggestions(t, list, category, min_confidence) ==
    /\ threads[t].pc = "idle"
    /\ Move(t, [pc |-> "filter_category", op |-> "filter_suggestions",
                overlapped |-> FALSE, suggestions |-> list, category |-> category,
                min_confidence |-> min_confidence, filtered |-> list])

\* Lines 363-366: filtered rebound to the suggestions of the category.
FilterCategory(t) ==
    /\ threads[t].pc = "filter_category"
    /\ LET f == threads[t]
       IN Move(t, [f EXCEPT !.pc = "filter_confidence",
                            !.filtered = filter_suggestions(@, f.category, 0)])

\* Lines 367-370: filtered rebound to the confident ones and returned.
FilterConfidence(t) ==
    /\ threads[t].pc = "filter_confidence"
    /\ LET f == threads[t]
       IN Move(t, [pc |-> "done", op |-> f.op, overlapped |-> f.overlapped,
                   suggestions |-> f.suggestions, category |-> f.category,
                   min_confidence |-> f.min_confidence,
                   result |-> filter_suggestions(f.filtered, None, f.min_confidence)])

\* Thread t calls get_workflow_categories().
CallGetWorkflowCategories(t) ==
    /\ threads[t].pc = "idle"
    /\ Move(t, [pc |-> "categories", op |-> "get_workflow_categories",
                overlapped |-> FALSE, categories |-> <<>>, i |-> 1])

\* Lines 348-352: one iteration of the loop filling the local dict.
AddToCategory(t) ==
    /\ threads[t].pc = "categories"
    /\ threads[t].i <= Len(workflow_templates)
    /\ LET f == threads[t]
           workflow_name == workflow_templates[f.i].name
           category == Get(workflow_templates[f.i].template, "category", "general")
           categories ==
               IF \E k \in 1..Len(f.categories) : f.categories[k].category = category
               THEN LET k == CHOOSE k \in 1..Len(f.categories) :
                                 f.categories[k].category = category
                    IN [f.categories EXCEPT ![k].workflows = Append(@, workflow_name)]
               ELSE Append(f.categories,
                           [category |-> category, workflows |-> <<workflow_name>>])
       IN Move(t, [f EXCEPT !.categories = categories, !.i = @ + 1])

\* Line 354: return categories.
ReturnCategories(t) ==
    /\ threads[t].pc = "categories"
    /\ threads[t].i > Len(workflow_templates)
    /\ LET f == threads[t]
       IN Move(t, [pc |-> "done", op |-> f.op, overlapped |-> f.overlapped,
                   result |-> f.categories])

\* The caller takes the result; the thread is free for another call.
Return(t) ==
    /\ threads[t].pc = "done"
    /\ threads' = [threads EXCEPT ![t] = IdleThread]
    /\ UNCHANGED <<workflow_templates, confidence_weights, analysis_results,
                   call_vars, last_query, manifest_run, structure_run>>

NextConcurrent ==
    \E t \in Threads :
        \/ \E analysis \in ConcurrentAnalysisPool : CallMatchWorkflows(t, analysis)
        \/ ExtractDetectedItems(t)
        \/ ScoreTemplate(t)
        \/ SortSuggestions(t)
        \/ \E list \in ConcurrentSuggestionsPool, category \in ConcurrentCategoryPool,
              min_confidence \in ConcurrentMinConfidencePool :
                 CallFilterSuggestions(t, list, category, min_confidence)
        \/ FilterCategory(t)
        \/ FilterConfidence(t)
        \/ CallGetWorkflowCategories(t)
        \/ AddToCategory(t)
        \/ ReturnCategories(t)
        \/ Return(t)

SpecConcurrent == Init /\ [][NextConcurrent]_vars

\* ------------------------------------------------------- malformed inputs

\* Dependency records as they may come from upstream: a complete one, an
\* object with no category attribute, one whose category is None, and a dict
\* (which has items, but neither a name nor a category attribute).
MalformedDependencyPool ==
    { [name |-> "express", category |-> "backend"],
      [name |-> "Vue"],
      [name |-> "left-pad", category |-> NoneValue],
      [items |-> <<"name", "react">>] }

\* Analysis results lacking entries match_workflows reads with .get.
MalformedAnalysisPool ==
    { <<>>,
      [structure |-> <<>>],
      [dependencies |-> <<>>, structure |-> <<>>],
      [structure |-> [patterns |-> [frameworks |-> <<"Components/">>]]],
      [structure |-> [patterns |-> [architecture |-> "full-stack"]]] }
    \cup { [dependencies |-> <<dep>>] : dep \in MalformedDependencyPool }
    \cup { [dependencies |-> <<dep>>,
            structure |-> [patterns |-> [key_patterns |-> <<"src/">>]]] :
              dep \in MalformedDependencyPool }

\* Templates with trigger tiers empty or missing.
MalformedTemplatePool ==
    { <<>>,
      [triggers |-> <<>>],
      [triggers |-> [strong |-> <<>>, medium |-> <<"react">>]],
      [category |-> "frontend", triggers |-> [strong |-> <<"react">>, weak |-> <<>>]],
      [triggers |-> [weak |-> <<"src/">>]] }

DetectedItemsPool == { <<>>, <<"react">>, <<"react", "src/">> }

\* The caller hands match_workflows another analysis result.
ReceiveAnalysis(analysis) ==
    /\ analysis_results # analysis
    /\ analysis_results' = analysis
    /\ UNCHANGED <<workflow_templates, confidence_weights, call_vars, other_vars>>

\* _calculate_workflow_confidence(workflow_name, template, detected_items)
CalculateWorkflowConfidence(workflow_name, template, detected) ==
    /\ last_query' = [op |-> "_calculate_workflow_confidence",
                      template |-> template, detected_items |-> detected,
                      result |-> calculate_workflow_confidence(confidence_weights,
                                     workflow_name, template, detected)]
    /\ UNCHANGED <<workflow_templates, confidence_weights, analysis_results,
                   call_vars, threads, manifest_run, structure_run>>

NextMalformed ==
    \/ \E analysis \in MalformedAnalysisPool : ReceiveAnalysis(analysis)
    \/ MatchWorkflows
    \/ \E template \in MalformedTemplatePool, detected \in DetectedItemsPool :
          CalculateWorkflowConfidence("custom-workflow", template, detected)

SpecMalformed == Init /\ [][NextMalformed]_vars

\* ------------------------------------------------------ dependency manifests

MaxLines == 2

\* self.framework_mappings, by the category it gives a lower-cased name.
framework_category(name) ==
    CASE name \in {"react", "vue", "angular", "svelte", "next", "nuxt"} -> "frontend"
      [] name \in {"express", "fastapi", "django", "flask", "spring", "rails"} -> "backend"
      [] name \in {"jest", "vitest", "pytest", "mocha", "cypress", "playwright"} -> "testing"
      [] name \in {"vite", "webpack", "rollup", "parcel", "esbuild"} -> "build"
      [] name \in {"prisma", "typeorm", "sqlalchemy", "mongoose", "sequelize"} -> "database"
      [] name \in {"storybook", "docusaurus", "vuepress", "gitbook"} -> "documentation"
      [] OTHER -> "unknown"

\* _create_dependency_info(name, version, dep_type)
create_dependency_info(name, version, dep_type) ==
    [name |-> name, version |-> version, type |-> dep_type,
     category |-> framework_category(Lower(name))]

\* One loop over a section's items, appending a DependencyInfo for each.
RECURSIVE section_dependencies(_, _)
section_dependencies(items, dep_type) ==
    IF items = <<>> THEN <<>>
    ELSE <<create_dependency_info(Head(items).name, Head(items).version, dep_type)>>
         \o section_dependencies(Tail(items), dep_type)

\* The value package_data holds under a section key: absent (.get gives {}),
\* a JSON object, or a JSON value that has no .items().
AbsentSection == [kind |-> "absent"]
SectionPool ==
    { AbsentSection,
      [kind |-> "object", items |-> <<[name |-> "React", version |-> "^18.2.0"]>>],
      [kind |-> "object", items |-> <<[name |-> "jest", version |-> "^29.0.0"],
                                      [name |-> "left-pad", version |-> "1.3.0"]>>],
      [kind |-> "array"],
      [kind |-> "null"] }

\* A package.json: a file that cannot be opened, text that is no JSON, a JSON
\* array, or a JSON object with the three sections.
PackageJsonPool ==
    { [content |-> c] : c \in {"unreadable", "invalid-json", "array"} }
    \cup { [content |-> "object", dependencies |-> p, devDependencies |-> d,
            peerDependencies |-> r] : p \in SectionPool, d \in SectionPool, r \in SectionPool }

\* Whether package_data.get(section, {}).items() raises.
section_raises(section) == section.kind \notin {"absent", "object"}

\* The items of a section that is absent or an object.
section_items(section) == IF section.kind = "object" THEN section.items ELSE <<>>

\* The exception the try block of analyze_package_json ends in, caught and
\* printed by `except Exception`.
package_json_error(manifest) ==
    CASE manifest.content = "unreadable" -> "OSError"
      [] manifest.content = "invalid-json" -> "JSONDecodeError"
      [] manifest.content = "array" -> "AttributeError"
      [] OTHER ->
           IF \/ section_raises(manifest.dependencies)
              \/ section_raises(manifest.devDependencies)
              \/ section_raises(manifest.peerDependencies)
           THEN "AttributeError" ELSE "None"

\* analyze_package_json(file_path): the list `dependencies` as it stands when
\* the try block ends, normally or in an exception.
analyze_package_json(manifest) ==
    IF manifest.content # "object" THEN <<>>
    ELSE IF section_raises(manifest.dependencies) THEN <<>>
    ELSE LET production ==
                 section_dependencies(section_items(manifest.dependencies), "production")
         IN IF section_raises(manifest.devDependencies) THEN production
            ELSE LET dev ==
                         section_dependencies(section_items(manifest.devDependencies), "dev")
                 IN IF section_raises(manifest.peerDependencies) THEN production \o dev
                    ELSE production \o dev
                         \o section_dependencies(
                                section_items(manifest.peerDependencies), "peer")

\* Lines of a requirements.txt, each with what lines 127-134 make of it:
\* skipped when blank or a comment, unmatched by ^([a-zA-Z0-9\-_]+), or a
\* name with the stripped rest of the line as its version.
RequirementLines ==
    ("django==4.2" :> [kind |-> "match", name |-> "django", version |-> "==4.2"])
    @@ ("pytest" :> [kind |-> "match", name |-> "pytest", version |-> ""])
    @@ ("-r other.txt" :> [kind |-> "match", name |-> "-r", version |-> "other.txt"])
    @@ ("# pinned" :> [kind |-> "skipped"])
    @@ ("!!bad" :> [kind |-> "unmatched"])

RECURSIVE BoundedSeq(_, _)
BoundedSeq(S, n) ==
    IF n = 0 THEN {<<>>}
    ELSE BoundedSeq(S, n - 1)
         \cup {Append(q, x) : q \in {r \in BoundedSeq(S, n - 1) : Len(r) = n - 1}, x \in S}

\* A requirements.txt: a file that cannot be opened, or its lines and how
\* many of them come out of the file before reading fails (all of them when
\* reading does not fail).
RequirementsTxtPool ==
    { [content |-> "unreadable"] }
    \cup { [content |-> "lines", lines |-> lines, read |-> n] :
              lines \in BoundedSeq(DOMAIN RequirementLines, MaxLines),
              n \in 0..MaxLines }

\* The exception the try block of analyze_requirements_txt ends in.
requirements_txt_error(file) ==
    CASE file.content = "unreadable" -> "OSError"
      [] file.read < Len(file.lines) -> "UnicodeDecodeError"
      [] OTHER -> "None"

\* The loop over the lines read.
RECURSIVE requirement_dependencies(_)
requirement_dependencies(lines) ==
    IF lines = <<>> THEN <<>>
    ELSE LET parsed == RequirementLines[Head(lines)]
         IN (IF parsed.kind = "match"
             THEN <<create_dependency_info(parsed.name, parsed.version, "production")>>
             ELSE <<>>)
            \o requirement_dependencies(Tail(lines))

\* analyze_requirements_txt(file_path)
analyze_requirements_txt(file) ==
    IF file.content = "unreadable" THEN <<>>
    ELSE requirement_dependencies(
             SubSeq(file.lines, 1, IF file.read < Len(file.lines)
                                   THEN file.read ELSE Len(file.lines)))

AnalyzePackageJson(manifest) ==
    /\ manifest_run' = [file |-> "package.json", manifest |-> manifest,
                        caught |-> package_json_error(manifest),
                        raised |-> "None",
                        result |-> analyze_package_json(manifest)]
    /\ UNCHANGED <<workflow_templates, confidence_weights, analysis_results,
                   call_vars, last_query, threads, structure_run>>

AnalyzeRequirementsTxt(file) ==
    /\ file.content = "lines" => file.read <= Len(file.lines)
    /\ manifest_run' = [file |-> "requirements.txt", manifest |-> file,
                        caught |-> requirements_txt_error(file),
                        raised |-> "None",
                        result |-> analyze_requirements_txt(file)]
    /\ UNCHANGED <<workflow_templates, confidence_weights, analysis_results,
                   call_vars, last_query, threads, structure_run>>

NextManifest ==
    \/ \E manifest \in PackageJsonPool : AnalyzePackageJson(manifest)
    \/ \E file \in RequirementsTxtPool : AnalyzeRequirementsTxt(file)

SpecManifest == Init /\ [][NextManifest]_vars

\* ------------------------------------------------------------ signal sets

\* Signals a project may show, in the order they are listed to the matcher.
SignalUniverse ==
    <<"react", "express", "jest", "component-based", "api-driven", "test-driven",
      "full-stack", "vue", "src/">>

\* The lists of distinct signals: every subset, in the order of the universe.
SignalListPool ==
    { SelectSeq(SignalUniverse, LAMBDA x : x \in S) : S \in SUBSET ToSet(SignalUniverse) }

\* The analysis handed to match_workflows carries the signals as labels.
ReceiveSignals(signals) ==
    /\ scored = <<>>
    /\ analysis_results = EmptyAnalysis
    /\ analysis_results' =
         [EmptyAnalysis EXCEPT !.structure.patterns.frameworks = signals]
    /\ UNCHANGED <<workflow_templates, confidence_weights, call_vars, other_vars>>

NextSignals ==
    \/ \E signals \in SignalListPool : ReceiveSignals(signals)
    \/ MatchWorkflows

SpecSignals == Init /\ [][NextSignals]_vars

\* ------------------------------------------------------- structure analyzer

\* self.key_folders, by the category it gives a lower-cased folder name.
folder_category(name) ==
    CASE name \in {"components", "pages", "views", "hooks", "assets", "public",
                   "styles"} -> "frontend"
      [] name = "src" -> "source"
      [] name \in {"store", "redux"} -> "state"
      [] name \in {"api", "routes", "controllers", "services", "models", "schemas",
                   "middleware", "utils", "lib"} -> "backend"
      [] name \in {"tests", "__tests__", "test", "spec", "cypress", "playwright"} -> "testing"
      [] name \in {"docs", "documentation", "md"} -> "documentation"
      [] name \in {"migrations", "seeds", "sql"} -> "database"
      [] name \in {"config", "configs", "settings"} -> "configuration"
      [] name \in {"docker", "deploy", ".github", "scripts"} -> "deployment"
      [] OTHER -> "unknown"

\* Path(file).suffix.lower() of the file names that occur.
FileSuffix ==
    ("App.jsx" :> ".jsx") @@ ("server.py" :> ".py") @@ ("package.json" :> ".json")

\* The category of a file: self.key_files by name first, then
\* self.file_extensions by suffix.
file_category(name) ==
    CASE name \in {"package.json", "requirements.txt", "Cargo.toml", "go.mod",
                   "tsconfig.json", "jsconfig.json", "vite.config.ts", "vite.config.js",
                   "webpack.config.js", "rollup.config.js", "eslint.config.js",
                   ".eslintrc.json", "prettier.config.js", ".prettierrc"} -> "configuration"
      [] name \in {"README.md", "CHANGELOG.md", "CONTRIBUTING.md", "LICENSE",
                   "LICENSE.md"} -> "documentation"
      [] name \in {"schema.sql", "database.sql", "prisma.schema"} -> "database"
      [] name \in {"Dockerfile", "docker-compose.yml", "docker-compose.yaml"} -> "deployment"
      [] name \in {"jest.config.js", "vitest.config.ts", "pytest.ini",
                   "cypress.config.ts", "playwright.config.ts"} -> "testing"
      [] FileSuffix[name] \in {".jsx", ".tsx", ".svelte", ".css", ".scss", ".sass",
                               ".less", ".styl"} -> "frontend"
      [] FileSuffix[name] \in {".py", ".js", ".ts", ".go", ".rs", ".java", ".php",
                               ".rb", ".cs"} -> "backend"
      [] FileSuffix[name] \in {".sql", ".prisma"} -> "database"
      [] FileSuffix[name] \in {".md", ".rst", ".txt"} -> "documentation"
      [] FileSuffix[name] \in {".json", ".yaml", ".yml", ".toml", ".ini", ".env"}
            -> "configuration"
      [] OTHER -> "unknown"

\* _analyze_folders / _analyze_files: one info per name, the folder category
\* looked up by the lower-cased name, the name kept as it is.
analyze_folders(names) ==
    [n \in 1..Len(names) |->
        [name |-> names[n], category |-> folder_category(Lower(names[n]))]]

analyze_files(names) ==
    [n \in 1..Len(names) |-> [name |-> names[n], category |-> file_category(names[n])]]

\* folder_categories / file_categories: the keys of the grouping dict and
\* the names grouped under a key ([] when the key is missing).
category_keys(infos) == {infos[n].category : n \in 1..Len(infos)}

names_in_category(infos, category) ==
    {infos[n].name : n \in {k \in 1..Len(infos) : infos[k].category = category}}

\* Mutant: the file categories consulted as well.
detect_architecture_with_files(folders, files) ==
    LET keys == category_keys(folders) \cup category_keys(files)
    IN IF "frontend" \in keys /\ "backend" \in keys THEN "full-stack"
       ELSE IF "frontend" \in keys THEN "frontend"
       ELSE IF "backend" \in keys THEN "backend"
       ELSE "unknown"

\* Lines 318-324: the architecture, from the folder categories.
detect_architecture(folders, files) ==
    LET folder_categories == category_keys(folders)
    IN IF "frontend" \in folder_categories /\ "backend" \in folder_categories
       THEN "full-stack"
       ELSE IF "frontend" \in folder_categories THEN "frontend"
       ELSE IF "backend" \in folder_categories THEN "backend"
       ELSE "unknown"

\* _detect_patterns(folders, files)
detect_patterns(folders, files) ==
    LET folder_categories == category_keys(folders)
        appended(condition, label) == IF condition THEN <<label>> ELSE <<>>
    IN [architecture |-> detect_architecture(folders, files),
        frameworks |->
            appended("components" \in names_in_category(folders, "frontend"),
                     "component-based")
            \o appended("api" \in names_in_category(folders, "backend"), "api-driven")
            \o appended("tests" \in folder_categories \/ "__tests__" \in folder_categories,
                        "test-driven"),
        project_types |->
            appended("docs" \in folder_categories, "documentation-heavy")
            \o appended("migrations" \in folder_categories, "database-driven")
            \o appended(".github" \in folder_categories, "ci-cd-enabled"),
        key_patterns |->
            appended("package.json" \in names_in_category(files, "configuration"),
                     "nodejs-project")
            \o appended("requirements.txt" \in names_in_category(files, "configuration"),
                        "python-project")
            \o appended("Cargo.toml" \in names_in_category(files, "configuration"),
                        "rust-project")
            \o appended("go.mod" \in names_in_category(files, "configuration"),
                        "go-project")]

\* _generate_recommendations(patterns): the list before `list(set(...))`.
recommendations_list(patterns) ==
    LET architecture == Get(patterns, "architecture", "unknown")
        frameworks == ToSet(Get(patterns, "frameworks", <<>>))
        project_types == ToSet(Get(patterns, "project_types", <<>>))
        appended(condition, names) == IF condition THEN names ELSE <<>>
    IN (IF architecture = "full-stack"
        THEN <<"full-stack-documentation", "api-documentation", "component-library">>
        ELSE IF architecture = "frontend"
        THEN <<"component-library", "frontend-testing">>
        ELSE IF architecture = "backend"
        THEN <<"api-documentation", "database-schema">>
        ELSE <<>>)
       \o appended("component-based" \in frameworks,
                   <<"storybook-setup", "component-testing">>)
       \o appended("api-driven" \in frameworks, <<"openapi-spec", "api-testing">>)
       \o appended("test-driven" \in frameworks, <<"test-coverage", "ci-testing">>)
       \o appended("documentation-heavy" \in project_types,
                   <<"documentation-generation", "knowledge-base">>)
       \o appended("database-driven" \in project_types,
                   <<"database-migration", "data-validation">>)
       \o appended("ci-cd-enabled" \in project_types,
                   <<"deployment-pipeline", "automation-workflow">>)

\* list(set(recommendations)): a list without repeats whose order the
\* language leaves open, held as the set of its entries and its length.
generate_recommendations(patterns) ==
    [names |-> ToSet(recommendations_list(patterns)),
     length |-> Cardinality(ToSet(recommendations_list(patterns)))]

\* Folders and files of the projects analysed, in walking order.
FolderNameUniverse ==
    <<"components", "Components", "api", "tests", "__tests__", "docs", "migrations",
      ".github", "src">>
FileNameUniverse == <<"App.jsx", "server.py", "package.json">>

\* Patterns handed to _generate_recommendations.
PatternsPool ==
    { [architecture |-> a, frameworks |-> f, project_types |-> t, key_patterns |-> <<>>] :
        a \in {"unknown", "frontend", "backend", "full-stack"},
        f \in { SelectSeq(<<"component-based", "api-driven", "test-driven">>,
                          LAMBDA x : x \in S) :
                  S \in SUBSET {"component-based", "api-driven", "test-driven"} },
        t \in { SelectSeq(<<"documentation-heavy", "database-driven", "ci-cd-enabled">>,
                          LAMBDA x : x \in S) :
                  S \in SUBSET {"documentation-heavy", "database-driven", "ci-cd-enabled"} } }

\* analyze_project_structure(project_path) on a project with these folders
\* and files.
AnalyzeProjectStructure(folder_names, file_names) ==
    LET folders == analyze_folders(folder_names)
        files == analyze_files(file_names)
        patterns == detect_patterns(folders, files)
    IN /\ structure_run' = [op |-> "analyze_project_structure",
                            folders |-> folders, files |-> files, patterns |-> patterns,
                            recommendations |-> generate_recommendations(patterns)]
       /\ UNCHANGED <<workflow_templates, confidence_weights, analysis_results,
                      call_vars, last_query, threads, manifest_run>>

\* _generate_recommendations(patterns)
GenerateRecommendations(patterns) ==
    /\ structure_run' = [op |-> "_generate_recommendations", patterns |-> patterns,
                         recommendations |-> generate_recommendations(patterns)]
    /\ UNCHANGED <<workflow_templates, confidence_weights, analysis_results,
                   call_vars, last_query, threads, manifest_run>>

\* One call of the analyzer, which keeps nothing between calls, on any
\* project or any patterns.
NextStructure ==
    \/ /\ structure_run = NoStructureRun
       /\ \E F \in SUBSET ToSet(FolderNameUniverse), G \in SUBSET ToSet(FileNameUniverse) :
             AnalyzeProjectStructure(SelectSeq(FolderNameUniverse, LAMBDA x : x \in F),
                                     SelectSeq(FileNameUniverse, LAMBDA x : x \in G))
    \/ /\ structure_run = NoStructureRun
       /\ \E patterns \in PatternsPool : GenerateRecommendations(patterns)

SpecStructure == Init /\ [][NextStructure]_vars

\* ---------------------------------------------------------------- claims

\* A match_workflows call has returned.
Called == scored # <<>>

Catalog == 1..Len(workflow_templates)

TierOf(i, level) == workflow_templates[i].template.triggers[level]

\* The size of the set intersection of a tier's trigger list with the signals.
TierHits(i, level) == Cardinality(ToSet(TierOf(i, level)) \cap ToSet(detected_items))

RawScore(i) == 9 * TierHits(i, "strong") + 7 * TierHits(i, "medium")
               + 5 * TierHits(i, "weak")

\* C1: for every catalog template and every flattened signal set, the
\* confidence computed for the template equals min(0.9*s + 0.7*m + 0.5*w, 1.0),
\* s, m and w being the sizes of the set intersections of the template's
\* strong, medium and weak trigger lists with the signal set (in tenths).
C1_ConfidenceFormula ==
    Called =>
        \A i \in Catalog :
            /\ scored[i].name = workflow_templates[i].name
            /\ scored[i].confidence = IF RawScore(i) < 10 THEN RawScore(i) ELSE 10

\* C1 witness: one call scored a template on a single medium match (0.7), one
\* on a single strong match (0.9) and one on a sum above the cap.
C1_Witness ==
    /\ Called
    /\ \E i \in Catalog : RawScore(i) = 7 /\ scored[i].confidence = 7
    /\ \E i \in Catalog : RawScore(i) = 9 /\ scored[i].confidence = 9
    /\ \E i \in Catalog : RawScore(i) > 10 /\ scored[i].confidence = 10

\* C2: the confidence of every suggestion computed, and so of every
\* suggestion returned, lies in [0, 1], also when several strong triggers
\* match at once.
C2_ConfidenceInRange ==
    /\ \A i \in 1..Len(scored) : scored[i].confidence \in 0..10
    /\ \A k \in 1..Len(suggestions) : suggestions[k].confidence \in 0..10

\* C2 witness: a returned suggestion whose template has two strong triggers
\* among the signals (raw score 1.8) and whose confidence is 1.0.
C2_Witness ==
    \E i \in Catalog :
        /\ Called
        /\ TierHits(i, "strong") >= 2
        /\ \E k \in 1..Len(suggestions) :
              /\ suggestions[k].name = workflow_templates[i].name
              /\ suggestions[k].confidence = 10

\* C3: a catalog template's name is in the returned list if and only if the
\* confidence computed for it is at least 0.3, and it is there at most once.
C3_FloorIff ==
    Called =>
        /\ \A i \in Catalog :
              (\E k \in 1..Len(suggestions) :
                    suggestions[k].name = workflow_templates[i].name)
              <=> (scored[i].confidence >= 3)
        /\ \A k \in 1..Len(suggestions) :
              \E i \in Catalog : suggestions[k] = scored[i]
        /\ \A k, l \in 1..Len(suggestions) :
              suggestions[k].name = suggestions[l].name => k = l

\* C3 witness: a call that returned some templates and dropped others.
C3_Witness ==
    /\ Called
    /\ suggestions # <<>>
    /\ \E i \in Catalog : scored[i].confidence < 3
    /\ \E i \in Catalog : scored[i].confidence >= 3

CatalogIndex(name) == CHOOSE i \in Catalog : workflow_templates[i].name = name

\* C4: the returned list is ordered by non-increasing confidence, and two
\* suggestions of equal confidence are in catalog declaration order.
C4_SortedStable ==
    \A k, l \in 1..Len(suggestions) :
        k < l =>
            /\ suggestions[k].confidence >= suggestions[l].confidence
            /\ suggestions[k].confidence = suggestions[l].confidence
                  => CatalogIndex(suggestions[k].name) < CatalogIndex(suggestions[l].name)

\* C4 witness: the returned list holds a tie and also a pair the sort moved
\* against catalog order.
C4_Witness ==
    /\ \E k, l \in 1..Len(suggestions) :
          k < l /\ suggestions[k].confidence = suggestions[l].confidence
    /\ \E k, l \in 1..Len(suggestions) :
          /\ k < l
          /\ CatalogIndex(suggestions[k].name) > CatalogIndex(suggestions[l].name)
          /\ suggestions[k].confidence > suggestions[l].confidence

\* The signals the analysis built so far flattens to.
CurrentItems ==
    extract_detected_items(analysis_results.dependencies,
                           analysis_results.structure.patterns)

\* The confidence a call on the analysis built so far computes for template i.
CurrentConfidence(i) ==
    calculate_workflow_confidence(confidence_weights, workflow_templates[i].name,
                                  workflow_templates[i].template,
                                  CurrentItems).confidence

\* C5: for every template and signal sets S, S' with S a subset of S', the
\* confidence on S is at most the confidence on S': the confidence the last
\* call computed on its signals never exceeds the one computed on the
\* signals of an analysis that has only gained tokens since.
C5_Monotone ==
    (Called /\ ToSet(detected_items) \subseteq ToSet(CurrentItems)) =>
        \A i \in Catalog : scored[i].confidence <= CurrentConfidence(i)

\* C5 witness: the analysis gained a token since the last call, and with it
\* one template's confidence rose while another's, already at a positive
\* value, stayed put.
C5_Witness ==
    /\ Called
    /\ ToSet(detected_items) \subseteq ToSet(CurrentItems)
    /\ ToSet(detected_items) # ToSet(CurrentItems)
    /\ \E i \in Catalog : scored[i].confidence < CurrentConfidence(i)
    /\ \E i \in Catalog :
          scored[i].confidence > 0 /\ scored[i].confidence = CurrentConfidence(i)

\* The declared triggers of a tier whose lower-cased form is among the signals,
\* in declaration order.
TierMatched(i, level) ==
    SelectSeq(TierOf(i, level), LAMBDA t : Lower(t) \in ToSet(detected_items))

\* C6: the matched-triggers list of every suggestion is the concatenation,
\* strong then medium then weak, of each tier's declared list restricted to
\* the triggers whose lower-cased form is in the signal set; it holds no
\* string the template does not declare and no trigger absent from the signals.
C6_MatchedTriggers ==
    Called =>
        /\ \A i \in Catalog :
              scored[i].triggers = TierMatched(i, "strong") \o TierMatched(i, "medium")
                                   \o TierMatched(i, "weak")
        /\ \A k \in 1..Len(suggestions) :
              LET i == CatalogIndex(suggestions[k].name) IN
              /\ suggestions[k].triggers = scored[i].triggers
              /\ \A n \in 1..Len(suggestions[k].triggers) :
                    LET t == suggestions[k].triggers[n] IN
                    /\ t \in ToSet(TierOf(i, "strong")) \cup ToSet(TierOf(i, "medium"))
                             \cup ToSet(TierOf(i, "weak"))
                    /\ Lower(t) \in ToSet(detected_items)

\* C6 witness: a returned suggestion lists triggers of all three tiers in
\* tier order, one token ("vue") being declared and listed under two tiers.
C6_Witness ==
    \E k \in 1..Len(suggestions) :
        LET i == CatalogIndex(suggestions[k].name) IN
        /\ TierMatched(i, "strong") = <<"vue">>
        /\ TierMatched(i, "medium") = <<"vue">>
        /\ TierMatched(i, "weak") = <<"src/">>
        /\ suggestions[k].triggers = <<"vue", "vue", "src/">>

\* The tokens of the last call's analysis as the analyzers wrote them, before
\* any lower-casing.
InputTokens ==
    LET deps == last_analysis.dependencies
        patterns == last_analysis.structure.patterns
    IN {deps[n].name : n \in 1..Len(deps)}
       \cup {deps[n].category : n \in {m \in 1..Len(deps) : "category" \in DOMAIN deps[m]}}
       \cup ToSet(patterns.frameworks) \cup ToSet(patterns.project_types)
       \cup ToSet(patterns.key_patterns)
       \cup ({patterns.architecture} \ {"", "unknown"})

\* Some input token equals the trigger once both are lower-cased.
EqualsSomeToken(t) == \E x \in InputTokens : Lower(x) = Lower(t)

TierEqual(i, level) == SelectSeq(TierOf(i, level), EqualsSomeToken)

EqualScore(i) ==
    9 * Cardinality({t \in ToSet(TierOf(i, "strong")) : EqualsSomeToken(t)})
    + 7 * Cardinality({t \in ToSet(TierOf(i, "medium")) : EqualsSomeToken(t)})
    + 5 * Cardinality({t \in ToSet(TierOf(i, "weak")) : EqualsSomeToken(t)})

\* C7: a trigger counts as matched only when some signal token equals it
\* after lower-casing: counts, confidence and matched triggers come from the
\* triggers with an equal token alone; a dependency written "React" matches
\* the trigger "react", and an analysis whose only tokens are substrings or
\* superstrings of triggers ("components", "reactive") matches nothing.
C7_ExactCaseInsensitive ==
    Called =>
        /\ \A i \in Catalog :
              /\ scored[i].triggers = TierEqual(i, "strong") \o TierEqual(i, "medium")
                                      \o TierEqual(i, "weak")
              /\ scored[i].confidence = IF EqualScore(i) < 10 THEN EqualScore(i) ELSE 10
        /\ "React" \in InputTokens =>
              \A i \in Catalog :
                  "react" \in ToSet(TierOf(i, "strong")) =>
                      /\ "react" \in ToSet(scored[i].triggers)
                      /\ scored[i].confidence >= 9
        /\ InputTokens \subseteq {"components", "reactive", "unknown"} =>
              \A i \in Catalog : scored[i].confidence = 0 /\ scored[i].triggers = <<>>

\* C7 witness: the analysis names the dependencies "React" and "reactive";
\* component-library is scored on the one trigger "react".
C7_Witness ==
    /\ Called
    /\ {"React", "reactive"} \subseteq InputTokens
    /\ LET i == CatalogIndex("component-library") IN
          scored[i].triggers = <<"react">> /\ scored[i].confidence = 9

\* C8: on an empty signal set (no dependencies, no structure labels) every
\* template has confidence 0 and match_workflows returns an empty list.
C8_EmptySignals ==
    /\ (Called /\ ItemCount(last_analysis) = 0
          /\ last_analysis.structure.patterns.architecture \in {"", "unknown"})
       => detected_items = <<>>
    /\ (Called /\ detected_items = <<>>)
       => (suggestions = <<>> /\ \A i \in Catalog : scored[i].confidence = 0)

\* C8 witness: match_workflows returned on an analysis without dependencies
\* and labels.
C8_Witness ==
    /\ Called
    /\ ItemCount(last_analysis) = 0
    /\ detected_items = <<>>
    /\ Len(scored) = 15

ClauseOf(label, items) == IF items = <<>> THEN <<>> ELSE <<label \o Join(", ", items)>>

ExpectedClauses(i) ==
    ClauseOf("Strong indicators: ", TierMatched(i, "strong"))
    \o ClauseOf("Supporting indicators: ", TierMatched(i, "medium"))
    \o ClauseOf("Additional indicators: ", TierMatched(i, "weak"))

\* C9: the reasoning of a suggestion is one clause per tier with a match and
\* none for a tier without, in the order strong, medium, weak, joined by
\* " | ", each clause listing that tier's matched triggers as declared, in
\* declaration order.
C9_Reasoning ==
    \A k \in 1..Len(suggestions) :
        LET i == CatalogIndex(suggestions[k].name) IN
        /\ ExpectedClauses(i) # <<>>
        /\ suggestions[k].reasoning = Join(" | ", ExpectedClauses(i))

\* C9 witness: with the signals react, frontend and vue, component-library
\* is explained by a strong and a medium clause and no weak one, and
\* storybook-setup by a medium clause alone.
C9_Witness ==
    /\ \E k \in 1..Len(suggestions) :
          /\ suggestions[k].name = "component-library"
          /\ suggestions[k].reasoning
                = "Strong indicators: react, vue | Supporting indicators: vue"
    /\ \E k \in 1..Len(suggestions) :
          /\ suggestions[k].name = "storybook-setup"
          /\ suggestions[k].reasoning = "Supporting indicators: react, vue"

\* C10: no returned suggestion carries the generic default reasoning or an
\* empty one.
C10_NoDefaultReasoning ==
    \A k \in 1..Len(suggestions) :
        /\ suggestions[k].reasoning # DefaultReasoning
        /\ suggestions[k].reasoning # ""

\* C10 witness: a call returned suggestions, and _generate_reasoning took its
\* no-match path only for templates the floor dropped.
C10_Witness ==
    /\ suggestions # <<>>
    /\ \E i \in Catalog :
          scored[i].reasoning = DefaultReasoning /\ scored[i].confidence < 3
    /\ \A i \in Catalog :
          scored[i].reasoning = DefaultReasoning =>
              \A k \in 1..Len(suggestions) : suggestions[k].name # scored[i].name

\* The labels of the last call's patterns, lower-cased, in the order the
\* flattener extends its list with them.
LabelItems ==
    LET patterns == last_analysis.structure.patterns
        labels == patterns.frameworks \o patterns.project_types \o patterns.key_patterns
                  \o (IF patterns.architecture \in {"", "unknown"} THEN <<>>
                      ELSE <<patterns.architecture>>)
    IN [n \in 1..Len(labels) |-> Lower(labels[n])]

\* What a dependency list contributes when only known categories count.
RECURSIVE KnownCategoryItems(_)
KnownCategoryItems(deps) ==
    IF deps = <<>> THEN <<>>
    ELSE <<Lower(Head(deps).name)>>
         \o (IF "category" \in DOMAIN Head(deps) /\ Head(deps).category # "unknown"
             THEN <<Lower(Head(deps).category)>> ELSE <<>>)
         \o KnownCategoryItems(Tail(deps))

\* C11: each dependency contributes its lower-cased name and, only when its
\* category is known, its lower-cased category; a dependency of category
\* "unknown" (or without category) contributes its name alone.
C11_UnknownCategoryOmitted ==
    Called => detected_items = KnownCategoryItems(last_analysis.dependencies) \o LabelItems

\* C12: with no dependencies the flattened tokens are exactly the lower-cased
\* labels of frameworks, project_types and key_patterns, plus the lower-cased
\* architecture iff it is neither "unknown" nor empty; every token is
\* lower-case ("Components/" arrives as "components/").
C12_StructureTokens ==
    (Called /\ last_analysis.dependencies = <<>>) =>
        LET patterns == last_analysis.structure.patterns
            labels == ToSet(patterns.frameworks) \cup ToSet(patterns.project_types)
                      \cup ToSet(patterns.key_patterns)
        IN /\ ToSet(detected_items) =
                 {Lower(x) : x \in labels}
                 \cup (IF patterns.architecture \in {"", "unknown"} THEN {}
                       ELSE {Lower(patterns.architecture)})
           /\ \A t \in ToSet(detected_items) : t \notin DOMAIN UpperCased
           /\ "Components/" \in labels => "components/" \in ToSet(detected_items)

\* C12 witness: a call on an analysis without dependencies whose frameworks
\* hold "Components/" and whose architecture is "full-stack".
C12_Witness ==
    /\ Called
    /\ last_analysis.dependencies = <<>>
    /\ last_analysis.structure.patterns.frameworks = <<"Components/">>
    /\ last_analysis.structure.patterns.architecture = "full-stack"
    /\ detected_items = <<"components/", "full-stack">>

\* First occurrences of a list, in order.
RECURSIVE Dedup(_)
Dedup(seq) ==
    IF seq = <<>> THEN <<>>
    ELSE LET front == Dedup(SubSeq(seq, 1, Len(seq) - 1))
             last == seq[Len(seq)]
         IN IF last \in ToSet(front) THEN front ELSE Append(front, last)

\* C13 as stated: the flattener's output holds each token at most once, and
\* empty inputs yield an empty result.
C13_NoDuplicateTokens ==
    Called =>
        /\ \A a, b \in 1..Len(detected_items) :
              detected_items[a] = detected_items[b] => a = b
        /\ (ItemCount(last_analysis) = 0
              /\ last_analysis.structure.patterns.architecture \in {"", "unknown"})
           => detected_items = <<>>

\* C13 amended: the flattener returns one token per contribution, repeats
\* included; the scorer reads it as a set, so every template's suggestion is
\* the one computed on the list without its repeats, and empty inputs yield
\* an empty list.
C13_DuplicatesCollapseInScoring ==
    Called =>
        /\ Len(detected_items) =
              Len(dependency_items(last_analysis.dependencies)) + Len(LabelItems)
        /\ \A i \in Catalog :
              scored[i] = calculate_workflow_confidence(confidence_weights,
                              workflow_templates[i].name, workflow_templates[i].template,
                              Dedup(detected_items))
        /\ (ItemCount(last_analysis) = 0
              /\ last_analysis.structure.patterns.architecture \in {"", "unknown"})
           => detected_items = <<>>

\* C13 witness: the same dependency reported twice; its tokens are in the
\* flattened list twice and component-library is scored on one strong match.
C13_Witness ==
    /\ Called
    /\ detected_items = <<"react", "frontend", "react", "frontend">>
    /\ scored[CatalogIndex("component-library")].confidence = 9
    /\ scored[CatalogIndex("component-library")].triggers = <<"react">>

\* The positions of a filter call's input that the stated contract keeps: the
\* category equals the one given, when one is given, and the confidence is at
\* least the threshold.
Qualifying(q) ==
    {k \in 1..Len(q.input) :
        /\ q.category # None => q.input[k].category = q.category[1]
        /\ q.input[k].confidence >= q.min_confidence}

\* The j-th of the qualifying positions, in input order.
NthQualifying(q, j) ==
    CHOOSE k \in Qualifying(q) : Cardinality({m \in Qualifying(q) : m < k}) = j - 1

\* C14: filter_suggestions returns exactly the order-preserving subsequence of
\* its input whose category equals the given category (when one is given) and
\* whose confidence is >= min_confidence, the threshold included.
C14_FilterSubsequence ==
    last_query.op = "filter_suggestions" =>
        /\ Len(last_query.result) = Cardinality(Qualifying(last_query))
        /\ \A j \in 1..Len(last_query.result) :
              last_query.result[j] = last_query.input[NthQualifying(last_query, j)]

\* The positions the code keeps: as Qualifying, an empty-string category
\* counting as no category.
QualifyingNonEmpty(q) ==
    {k \in 1..Len(q.input) :
        /\ (q.category # None /\ q.category # <<"">>) => q.input[k].category = q.category[1]
        /\ q.input[k].confidence >= q.min_confidence}

\* C14 (amended): filter_suggestions returns exactly the order-preserving
\* subsequence of its input whose category equals the given category, when a
\* non-empty one is given (None and the empty string filter nothing), and
\* whose confidence is >= min_confidence, the threshold included.
C14_FilterNonEmptyCategory ==
    last_query.op = "filter_suggestions" =>
        LET q == last_query
            Nth(j) == CHOOSE k \in QualifyingNonEmpty(q) :
                          Cardinality({m \in QualifyingNonEmpty(q) : m < k}) = j - 1
        IN /\ Len(q.result) = Cardinality(QualifyingNonEmpty(q))
           /\ \A j \in 1..Len(q.result) : q.result[j] = q.input[Nth(j)]

\* C14 witness: a filter by category and threshold kept a suggestion whose
\* confidence equals the threshold, dropped one of the category below the
\* threshold and dropped one above the threshold of another category.
C14_Witness ==
    /\ last_query.op = "filter_suggestions"
    /\ last_query.category = <<"testing">>
    /\ last_query.min_confidence = 9
    /\ \E j \in 1..Len(last_query.result) : last_query.result[j].confidence = 9
    /\ \E k \in 1..Len(last_query.input) :
          last_query.input[k].category = "testing" /\ last_query.input[k].confidence = 7
    /\ \E k \in 1..Len(last_query.input) :
          last_query.input[k].category # "testing" /\ last_query.input[k].confidence >= 9

\* An empty-string category returned every suggestion of a non-empty input.
EmptyCategoryFiltersNothing ==
    /\ last_query.op = "filter_suggestions"
    /\ last_query.category = <<"">>
    /\ last_query.min_confidence = 0
    /\ last_query.input # <<>>
    /\ last_query.result = last_query.input

\* C19: in the mapping get_workflow_categories returns every catalog template
\* name appears exactly once, under the key equal to its category, the names
\* of a category in catalog declaration order, and no category is empty.
C19_Categories ==
    last_query.op = "get_workflow_categories" =>
        LET r == last_query.result IN
        /\ \A a, b \in 1..Len(r) : r[a].category = r[b].category => a = b
        /\ \A a \in 1..Len(r) :
              /\ r[a].workflows # <<>>
              /\ \A m, n \in 1..Len(r[a].workflows) :
                    m < n => CatalogIndex(r[a].workflows[m]) < CatalogIndex(r[a].workflows[n])
        /\ \A i \in Catalog :
              \E a \in 1..Len(r) :
                  /\ r[a].category = workflow_templates[i].template.category
                  /\ workflow_templates[i].name \in ToSet(r[a].workflows)
        /\ \A a \in 1..Len(r) : \A n \in 1..Len(r[a].workflows) :
              \E i \in Catalog :
                  /\ workflow_templates[i].name = r[a].workflows[n]
                  /\ workflow_templates[i].template.category = r[a].category

\* C19 witness: the call returned the seven categories, testing holding its
\* three workflows in declaration order.
C19_Witness ==
    /\ last_query.op = "get_workflow_categories"
    /\ Len(last_query.result) = 7
    /\ \E a \in 1..7 :
          /\ last_query.result[a].category = "testing"
          /\ last_query.result[a].workflows
                = <<"frontend-testing", "test-coverage", "api-testing">>

\* C20: get_workflow_details returns the full template of a catalog key and
\* None for a name absent from the catalog; it raises nothing and leaves the
\* catalog as it was loaded.
C20_Details ==
    /\ workflow_templates = load_workflow_templates
    /\ last_query.op = "get_workflow_details" =>
          LET q == last_query IN
          /\ (\E i \in Catalog : workflow_templates[i].name = q.workflow_name)
                => q.result = <<workflow_templates[CatalogIndex(q.workflow_name)].template>>
          /\ (\A i \in Catalog : workflow_templates[i].name # q.workflow_name)
                => q.result = None

\* C20 witness: a lookup of a name the structure analyzer recommends but the
\* catalog lacks came back None.
C20_Witness ==
    /\ last_query.op = "get_workflow_details"
    /\ last_query.workflow_name = "component-testing"
    /\ last_query.result = None

\* C20 witness of the found case is the same call on "api-testing".
C20_FoundReached ==
    /\ last_query.op = "get_workflow_details"
    /\ last_query.workflow_name = "api-testing"
    /\ last_query.result # None

\* The set of distinct tokens an analysis flattens to.
TokenSet(analysis) ==
    ToSet(extract_detected_items(
              Get(analysis, "dependencies", <<>>),
              Get(Get(analysis, "structure", <<>>), "patterns", <<>>)))

\* What one call on a fresh matcher computes for template i.
ScoredAlone(analysis, i) ==
    calculate_workflow_confidence(ConfidenceWeights,
        load_workflow_templates[i].name, load_workflow_templates[i].template,
        extract_detected_items(
            Get(analysis, "dependencies", <<>>),
            Get(Get(analysis, "structure", <<>>), "patterns", <<>>)))

\* C15: scoring depends only on the set of distinct tokens and the template:
\* two runs whose flattened tokens form the same set (any order, any
\* multiplicity) give every template the same confidence, reasoning and
\* matched triggers, and a run after earlier runs on the same matcher gives
\* what a first run on a fresh matcher gives.
C15_Deterministic ==
    Called =>
        /\ \A i \in Catalog : scored[i] = ScoredAlone(last_analysis, i)
        /\ (last_query.op = "match_workflows"
              /\ TokenSet(last_query.analysis) = TokenSet(last_analysis)) =>
                 /\ \A i \in Catalog :
                       /\ scored[i].confidence = last_query.scored[i].confidence
                       /\ scored[i].reasoning = last_query.scored[i].reasoning
                       /\ scored[i].triggers = last_query.scored[i].triggers
                 /\ suggestions = last_query.suggestions

\* C15 witness: a kept run and a later run on another analysis with the same
\* token set, the tokens in another order, both suggesting something.
C15_Witness ==
    /\ Called
    /\ last_query.op = "match_workflows"
    /\ last_query.analysis.dependencies
          = <<[name |-> "React", category |-> "frontend"],
              [name |-> "express", category |-> "backend"]>>
    /\ last_analysis.dependencies
          = <<[name |-> "express", category |-> "backend"],
              [name |-> "React", category |-> "frontend"]>>
    /\ suggestions # <<>>

\* C15 also reached: the same token with another multiplicity, after a run on
\* different tokens in between is possible.
C15_MultiplicityReached ==
    /\ Called
    /\ last_query.op = "match_workflows"
    /\ Len(last_query.analysis.dependencies) = 1
    /\ Len(last_analysis.dependencies) = 2
    /\ TokenSet(last_query.analysis) = TokenSet(last_analysis)

\* What the call a finished thread made returns when it runs alone on a
\* freshly constructed matcher.
ResultAlone(f) ==
    CASE f.op = "match_workflows" ->
           match_workflows(load_workflow_templates, ConfidenceWeights, f.analysis_results)
      [] f.op = "filter_suggestions" ->
           filter_suggestions(f.suggestions, f.category, f.min_confidence)
      [] f.op = "get_workflow_categories" ->
           get_workflow_categories(load_workflow_templates)

\* C16: in every interleaving of match_workflows, filter_suggestions and
\* get_workflow_categories calls of two threads on one matcher the catalog
\* (and the weights) stay as loaded and every finished call holds the result
\* the same call returns when run alone.
C16_Interleaving ==
    /\ workflow_templates = load_workflow_templates
    /\ confidence_weights = ConfidenceWeights
    /\ \A t \in Threads :
          threads[t].pc = "done" => threads[t].result = ResultAlone(threads[t])

\* C16 witness: a match_workflows call that overlapped another call finished
\* with suggestions while a match_workflows call on another analysis is in
\* the middle of its loop with suggestions of its own.
C16_Witness ==
    /\ threads["t1"].pc = "done"
    /\ threads["t1"].op = "match_workflows"
    /\ threads["t1"].overlapped
    /\ threads["t1"].result # <<>>
    /\ threads["t2"].pc = "score"
    /\ threads["t2"].i > 5
    /\ threads["t2"].i <= 15
    /\ threads["t2"].analysis_results # threads["t1"].analysis_results
    /\ threads["t2"].suggestions # <<>>

\* C16 also reached: a filter call and a categories call finished, each having
\* overlapped the other thread's call.
C16_QueriesOverlapReached ==
    /\ threads["t1"].pc = "done" /\ threads["t1"].op = "filter_suggestions"
    /\ threads["t1"].overlapped /\ threads["t1"].result # <<>>
    /\ threads["t1"].result # threads["t1"].suggestions
    /\ threads["t2"].pc = "done" /\ threads["t2"].op = "get_workflow_categories"
    /\ threads["t2"].overlapped

\* The labels an analysis holds under a key of its patterns, none when the
\* structure, the patterns or the key is missing.
PresentLabels(analysis, key) ==
    IF /\ "structure" \in DOMAIN analysis
       /\ "patterns" \in DOMAIN analysis.structure
       /\ key \in DOMAIN analysis.structure.patterns
    THEN ToSet(analysis.structure.patterns[key]) ELSE {}

\* The architecture an analysis holds, when it holds a telling one.
PresentArchitecture(analysis) ==
    IF /\ "structure" \in DOMAIN analysis
       /\ "patterns" \in DOMAIN analysis.structure
       /\ "architecture" \in DOMAIN analysis.structure.patterns
       /\ analysis.structure.patterns.architecture \notin {"", "unknown"}
    THEN {analysis.structure.patterns.architecture} ELSE {}

\* The dependencies an analysis holds, none when the entry is missing.
PresentDependencies(analysis) ==
    IF "dependencies" \in DOMAIN analysis THEN ToSet(analysis.dependencies) ELSE {}

\* The tokens the parts present in an analysis contribute: a missing part
\* contributes nothing.
PresentTokens(analysis) ==
    {Lower(dep.name) : dep \in PresentDependencies(analysis)}
    \cup {Lower(dep.category) :
            dep \in {d \in PresentDependencies(analysis) : "category" \in DOMAIN d}}
    \cup {Lower(label) : label \in PresentLabels(analysis, "frameworks")
                                   \cup PresentLabels(analysis, "project_types")
                                   \cup PresentLabels(analysis, "key_patterns")
                                   \cup PresentArchitecture(analysis)}

\* The triggers a template holds in a tier, none when the tier is missing.
PresentTier(template, tier) ==
    IF "triggers" \in DOMAIN template /\ tier \in DOMAIN template.triggers
    THEN ToSet(template.triggers[tier]) ELSE {}

\* The outcome of the latest calls is the normal one, the missing parts
\* having contributed nothing.
DegradesToZeroMatches ==
    /\ ToSet(detected_items) = PresentTokens(last_analysis)
    /\ suggestions = sort_by_confidence(keep_confident(scored))
    /\ Len(scored) = Len(workflow_templates)
    /\ last_query.op = "_calculate_workflow_confidence" =>
          LET q == last_query
              hits(tier) == Cardinality(PresentTier(q.template, tier)
                                        \cap ToSet(q.detected_items))
              raw == 9 * hits("strong") + 7 * hits("medium") + 5 * hits("weak")
          IN /\ q.result.confidence = (IF raw > 10 THEN 10 ELSE raw)
             /\ ToSet(q.result.triggers)
                   = (PresentTier(q.template, "strong") \cup PresentTier(q.template, "medium")
                        \cup PresentTier(q.template, "weak")) \cap ToSet(q.detected_items)

\* C17: malformed upstream data never makes scoring fail: a dependency record
\* without a category, a template with an empty or missing trigger tier and
\* an analysis lacking the dependencies, structure or patterns entries each
\* yield zero matches from the missing part and a normal suggestion list,
\* not an error.
C17_MalformedNeverFails ==
    /\ raised = "None"
    /\ last_analysis # EmptyAnalysis => DegradesToZeroMatches

\* Whenever the call returns, it returns the degraded normal result.
MalformedDegradesUnlessRaised ==
    (raised = "None" /\ last_analysis # EmptyAnalysis) => DegradesToZeroMatches

\* A dependency object with no category attribute was scored by its name.
AttributelessDependencyScored ==
    /\ raised = "None"
    /\ last_analysis = [dependencies |-> <<[name |-> "Vue"]>>]
    /\ detected_items = <<"vue">>
    /\ suggestions # <<>>

\* A dependency whose category is None made the call raise.
NoneCategoryRaised ==
    /\ raised = "AttributeError"
    /\ last_analysis = [dependencies |-> <<[name |-> "left-pad", category |-> NoneValue]>>]

\* C18: when a manifest cannot be read or is malformed the dependency
\* analyzer raises no exception to its caller and returns the empty list for
\* that manifest, no partially parsed dependencies.
C18_EmptyOnMalformedManifest ==
    (manifest_run.file # "none" /\ manifest_run.caught # "None") =>
        /\ manifest_run.raised = "None"
        /\ manifest_run.result = <<>>

\* No exception of the try block reaches the caller, and a manifest that
\* fails before its first entry gives the empty list.
ManifestErrorsCaught ==
    manifest_run.file # "none" =>
        /\ manifest_run.raised = "None"
        /\ manifest_run.caught \in {"OSError", "JSONDecodeError"} => manifest_run.result = <<>>

\* A package.json whose devDependencies is an array came back with the
\* production dependencies parsed before the error.
PartialPackageJsonReturned ==
    /\ manifest_run.file = "package.json"
    /\ manifest_run.caught = "AttributeError"
    /\ manifest_run.manifest.content = "object"
    /\ manifest_run.manifest.devDependencies = [kind |-> "array"]
    /\ manifest_run.result = <<[name |-> "React", version |-> "^18.2.0",
                                type |-> "production", category |-> "frontend"]>>

\* A requirements.txt whose reading failed after its first line came back
\* with that line's dependency.
PartialRequirementsReturned ==
    /\ manifest_run.file = "requirements.txt"
    /\ manifest_run.caught = "UnicodeDecodeError"
    /\ manifest_run.result = <<[name |-> "django", version |-> "==4.2",
                                type |-> "production", category |-> "backend"]>>

\* The signal set of the worked example.
ExampleSignals ==
    {"react", "express", "jest", "component-based", "api-driven", "test-driven",
     "full-stack"}

\* C21: with the signal set {react, express, jest, component-based,
\* api-driven, test-driven, full-stack} the component-library template gets a
\* confidence >= 0.9 and a reasoning that contains "react" (it is the one
\* clause "Strong indicators: " followed by "react").
C21_ComponentLibraryExample ==
    (Called /\ ToSet(detected_items) = ExampleSignals) =>
        LET suggestion == scored[CatalogIndex("component-library")]
        IN /\ suggestion.confidence >= 9
           /\ suggestion.reasoning = "Strong indicators: " \o "react"
           /\ suggestion.triggers = <<"react">>
           /\ \E k \in 1..Len(suggestions) : suggestions[k] = suggestion

\* C21 witness: the example's signal set was scored.
C21_Witness ==
    /\ Called
    /\ ToSet(detected_items) = ExampleSignals
    /\ scored[CatalogIndex("component-library")].name = "component-library"
    /\ scored[CatalogIndex("component-library")].confidence = 9

\* The number of triggers of template i matched over its three tiers, a
\* trigger declared in two tiers counting twice.
MatchedCount(i) == TierHits(i, "strong") + TierHits(i, "medium") + TierHits(i, "weak")

\* The weight of the one tier of template i that has a match.
SingleMatchWeight(i) ==
    CASE TierHits(i, "strong") = 1 -> 9
      [] TierHits(i, "medium") = 1 -> 7
      [] TierHits(i, "weak") = 1 -> 5

\* C24: every confidence is 0, 0.5, 0.7, 0.9 or 1.0: exactly one matched
\* trigger gives its tier's weight, two or more saturate at 1.0; so every
\* emitted suggestion has confidence >= 0.5 and the floor excludes exactly
\* the templates with no matched trigger.
C24_ConfidenceValues ==
    Called =>
        /\ \A i \in Catalog :
              /\ scored[i].confidence \in {0, 5, 7, 9, 10}
              /\ MatchedCount(i) = 0 => scored[i].confidence = 0
              /\ MatchedCount(i) = 1 => scored[i].confidence = SingleMatchWeight(i)
              /\ MatchedCount(i) >= 2 => scored[i].confidence = 10
              /\ (\E k \in 1..Len(suggestions) : suggestions[k].name = scored[i].name)
                    <=> MatchedCount(i) >= 1
        /\ \A k \in 1..Len(suggestions) : suggestions[k].confidence >= 5

\* C24 witness: one call gave a template nothing, another one weak match
\* (0.5), and a third a strong and a medium match (1.0).
C24_Witness ==
    /\ Called
    /\ \E i \in Catalog : MatchedCount(i) = 0 /\ scored[i].confidence = 0
    /\ \E i \in Catalog :
          MatchedCount(i) = 1 /\ TierHits(i, "weak") = 1 /\ scored[i].confidence = 5
    /\ \E i \in Catalog :
          /\ TierHits(i, "strong") = 1 /\ TierHits(i, "medium") = 1
          /\ scored[i].confidence = 10
    /\ Len(suggestions) < Len(scored)

\* C25: the matched-triggers list of every template has as many entries as
\* strong + medium + weak matches counted for the score; a token declared in
\* two tiers of a template ("vue" in component-library's strong and medium
\* tiers) is counted once per tier and listed once per tier.
C25_ListedAsCounted ==
    Called =>
        /\ \A i \in Catalog :
              /\ Len(scored[i].triggers) = MatchedCount(i)
              /\ \A level \in {"strong", "medium", "weak"} :
                    Len(TierMatched(i, level)) = TierHits(i, level)
        /\ "vue" \in ToSet(detected_items) =>
              LET i == CatalogIndex("component-library")
              IN /\ TierHits(i, "strong") >= 1 /\ TierHits(i, "medium") = 1
                 /\ Cardinality({n \in 1..Len(scored[i].triggers) :
                                    scored[i].triggers[n] = "vue"}) = 2

\* C25 witness: "vue" and "react" were among the signals, and
\* component-library lists react, vue and vue again for its three counted
\* matches.
C25_Witness ==
    /\ Called
    /\ ToSet(detected_items) = {"react", "vue"}
    /\ scored[CatalogIndex("component-library")].triggers = <<"react", "vue", "vue">>
    /\ MatchedCount(CatalogIndex("component-library")) = 3

\* The names of the folders of the analysed project.
FolderNames == {structure_run.folders[n].name : n \in 1..Len(structure_run.folders)}

\* C22: pattern detection adds "test-driven" to frameworks whenever the
\* project has a folder named tests or __tests__, and "documentation-heavy",
\* "database-driven" and "ci-cd-enabled" to project types whenever it has a
\* folder named docs, migrations and .github respectively.
C22_FolderNameLabels ==
    structure_run.op = "analyze_project_structure" =>
        LET patterns == structure_run.patterns IN
        /\ ("tests" \in FolderNames \/ "__tests__" \in FolderNames)
              => "test-driven" \in ToSet(patterns.frameworks)
        /\ "docs" \in FolderNames => "documentation-heavy" \in ToSet(patterns.project_types)
        /\ "migrations" \in FolderNames => "database-driven" \in ToSet(patterns.project_types)
        /\ ".github" \in FolderNames => "ci-cd-enabled" \in ToSet(patterns.project_types)

\* Analysing folders never yields one of the four labels: the folder
\* categories hold no key tests, __tests__, docs, migrations or .github.
FolderNameLabelsNeverAdded ==
    structure_run.op = "analyze_project_structure" =>
        /\ "test-driven" \notin ToSet(structure_run.patterns.frameworks)
        /\ structure_run.patterns.project_types = <<>>

\* A project with the folders tests, docs, migrations and .github was analysed.
LabelFoldersAnalysed ==
    /\ structure_run.op = "analyze_project_structure"
    /\ {"tests", "docs", "migrations", ".github"} \subseteq FolderNames

\* Whether the analysed project has a folder of the category.
HasFolderOf(category) ==
    \E n \in 1..Len(structure_run.folders) : structure_run.folders[n].category = category

\* C23: the architecture is "full-stack" exactly when the project has a
\* frontend-category folder and a backend-category folder, "frontend"
\* exactly when it has frontend ones and no backend one, "backend" exactly
\* when it has backend ones and no frontend one, "unknown" otherwise; the
\* files' categories never influence it.
C23_Architecture ==
    structure_run.op = "analyze_project_structure" =>
        LET architecture == structure_run.patterns.architecture IN
        /\ architecture = "full-stack" <=> (HasFolderOf("frontend") /\ HasFolderOf("backend"))
        /\ architecture = "frontend" <=> (HasFolderOf("frontend") /\ ~HasFolderOf("backend"))
        /\ architecture = "backend" <=> (HasFolderOf("backend") /\ ~HasFolderOf("frontend"))
        /\ architecture = "unknown" <=> (~HasFolderOf("frontend") /\ ~HasFolderOf("backend"))
        /\ architecture = detect_architecture(structure_run.folders, <<>>)

\* C23 witness: a project with a frontend folder, no backend folder and a
\* backend-category file was found to be "frontend".
C23_Witness ==
    /\ structure_run.op = "analyze_project_structure"
    /\ HasFolderOf("frontend") /\ ~HasFolderOf("backend")
    /\ \E n \in 1..Len(structure_run.files) : structure_run.files[n].category = "backend"
    /\ structure_run.patterns.architecture = "frontend"

\* C23 also reached: frontend and backend files, no such folder: "unknown".
C23_FilesOnlyReached ==
    /\ structure_run.op = "analyze_project_structure"
    /\ ~HasFolderOf("frontend") /\ ~HasFolderOf("backend")
    /\ {"frontend", "backend"} \subseteq category_keys(structure_run.files)
    /\ structure_run.patterns.architecture = "unknown"

\* C26: every workflow name _generate_recommendations returns is the name of
\* a catalog template (get_workflow_details finds it), and the returned
\* list holds no name twice.
C26_RecommendationsInCatalog ==
    structure_run.op # "none" =>
        /\ \A name \in structure_run.recommendations.names :
              get_workflow_details(workflow_templates, name) # None
        /\ structure_run.recommendations.length
              = Cardinality(structure_run.recommendations.names)

\* The returned list holds no name twice, though the list built before it may.
RecommendationsDistinct ==
    structure_run.op # "none" =>
        structure_run.recommendations.length
            = Cardinality(structure_run.recommendations.names)

\* A recommendation for component-based patterns named a workflow the
\* catalog lacks.
AbsentWorkflowRecommended ==
    /\ structure_run.op = "_generate_recommendations"
    /\ structure_run.patterns.frameworks = <<"component-based">>
    /\ "component-testing" \in structure_run.recommendations.names
    /\ get_workflow_details(workflow_templates, "component-testing") = None

====
